---- MODULE Spec2Model ----
(***************************************************************************)
(* Model of the NFT blockchain simulator: src/app2.py (records with an     *)
(* `owner` field) and src/app3.py (records with owner_name, owner_pubkey   *)
(* and signature).  One run of the model is one run of one of the two      *)
(* scripts (variable `app`) against the storage file blockchain.json.      *)
(*                                                                         *)
(* Specifications: Spec (either script, no interference), SpecTamper       *)
(* (app3, attributes assigned in place), SpecStore (app3, save and load of *)
(* mutated chains), SpecForeign (app3 loading files it did not write),     *)
(* SpecCrash (either script, saves that may be cut short), SpecCompat      *)
(* (app3 started on app2's file), SpecUnlocked and SpecLocked (concurrent  *)
(* sessions of app2 without and with an external lock), SpecSig (wallets   *)
(* and signatures).                                                        *)
(*                                                                         *)
(* Python values are represented as follows.                               *)
(*   - a Block's __dict__ is a record (a function from attribute names);   *)
(*   - None is the empty tuple, an optional string s is the tuple <<s>>;   *)
(*   - a JSON text is the sequence of its <<key, token>> pairs, a token    *)
(*     being <<"int", n>>, <<"str", s>>, <<"null">> or <<"obj", pairs>>;   *)
(*   - the SHA-256 hex digest of a text t is <<"sha256", t>>: the digest   *)
(*     is modelled collision-free, and the literal "0" is <<"0">>.         *)
(***************************************************************************)
EXTENDS Integers, Sequences, FiniteSets, TLC

VARIABLES
    app,        \* which script is running: "app2" or "app3"
    chain,      \* blockchain.chain, the in-memory list of Blocks
    storage,    \* the file blockchain.json: [exists, data, torn]
    op,         \* the last operation that ran
    ret,        \* what it returned (or the exception it raised)
    tampers,    \* number of interferences of the environment so far
    keys,       \* the signing keys generate_wallet has returned
    sigs,       \* the signatures sign_art has returned: [sk, art_hash, signature]
    sess,       \* the concurrent browser sessions: [pc, chain, seen, minted]
    lock,       \* the session holding the deployment's lock, 0 for none
    lockorder   \* the sessions in the order they acquired the lock

vars == <<app, chain, storage, op, ret, tampers, keys, sigs, sess, lock, lockorder>>

(***************************************************************************)
(* Bounds of the model and the inputs callers supply.                      *)
(***************************************************************************)
MaxChain == 4
MaxEnvChain == 2
MaxTamper == 1
MaxSigs == 2
MaxSessions == 3

Timestamps == {"2024-05-01 10:00:00.000001"}
ArtHashes == {"abc123", "def456"}
ArtHashes3 == {"abc123"}
Owners == {"alice"}
None == <<>>
PubKeys == {None, <<"vk1">>}
Signatures == {None, <<"sig1">>}
Metadatas == {[title |-> "Sunset"]}
GenesisMetadata == [title |-> "Genesis Block"]
ZeroHash == <<"0">>

(***************************************************************************)
(* json.dumps / json.load, and hashlib.sha256(...).hexdigest().            *)
(***************************************************************************)
\* dict insertion order of a Block's __dict__ (app2 has owner, app3 owner_name)
InsertionKeys ==
    <<"index", "timestamp", "art_hash", "owner", "owner_name", "owner_pubkey",
      "signature", "metadata", "previous_hash", "nonce", "hash">>
\* the same keys as sort_keys=True orders them
SortedKeys ==
    <<"art_hash", "hash", "index", "metadata", "nonce", "owner", "owner_name",
      "owner_pubkey", "previous_hash", "signature", "timestamp">>
MetaInsertionKeys == <<"title", "description", "category", "thumbnail">>
MetaSortedKeys == <<"category", "description", "thumbnail", "title">>

KeysOf(d, order) == SelectSeq(order, LAMBDA k : k \in DOMAIN d)

\* a nested metadata dict as a JSON object; its values are strings
json_dumps_metadata(m, sort_keys) ==
    LET ks == KeysOf(m, IF sort_keys THEN MetaSortedKeys ELSE MetaInsertionKeys)
    IN  [i \in 1..Len(ks) |-> <<ks[i], <<"str", m[ks[i]]>>>>]

\* the JSON token of attribute k holding v
json_value(k, v, sort_keys) ==
    CASE k \in {"index", "nonce"} -> <<"int", v>>
      [] k \in {"owner_pubkey", "signature"} ->
            IF v = None THEN <<"null">> ELSE <<"str", v[1]>>
      [] k = "metadata" -> <<"obj", json_dumps_metadata(v, sort_keys)>>
      [] OTHER -> <<"str", v>>

\* json.dumps(d, sort_keys=sort_keys) of one __dict__
json_dumps(d, sort_keys) ==
    LET ks == KeysOf(d, IF sort_keys THEN SortedKeys ELSE InsertionKeys)
    IN  [i \in 1..Len(ks) |-> <<ks[i], json_value(ks[i], d[ks[i]], sort_keys)>>]

TokenOf(pairs, k) == (CHOOSE i \in DOMAIN pairs : pairs[i][1] = k)
JsonKeys(pairs) == {pairs[i][1] : i \in DOMAIN pairs}

json_loads_metadata(pairs) ==
    [k \in JsonKeys(pairs) |-> pairs[TokenOf(pairs, k)][2][2]]

\* the Python value a JSON token of attribute k parses to
py_value(k, tok) ==
    CASE tok[1] = "null" -> None
      [] tok[1] = "obj" -> json_loads_metadata(tok[2])
      [] tok[1] = "str" /\ k \in {"owner_pubkey", "signature"} -> <<tok[2]>>
      [] OTHER -> tok[2]

\* json.load of one object: the dict block_data
json_loads(pairs) ==
    [k \in JsonKeys(pairs) |-> py_value(k, pairs[TokenOf(pairs, k)][2])]

sha256_hexdigest(text) == <<"sha256", text>>

\* dict.get(k) and dict.get(k, default)
\* the outcome of a call: the value returned or the exception raised
Return(v) == [raised |-> FALSE, value |-> v]
Raise(exc) == [raised |-> TRUE, exc |-> exc]

Get(d, k, default) == IF k \in DOMAIN d THEN d[k] ELSE default

Pop(d, k) == [x \in DOMAIN d \ {k} |-> d[x]]

(***************************************************************************)
(* src/app3.py: Block and Blockchain.                                      *)
(***************************************************************************)
\* compute_hash without the pop of the stored hash
compute_hash3_keeps_hash(b) == sha256_hexdigest(json_dumps(b, TRUE))

\* compute_hash over a dict that lacks metadata
compute_hash3_skips_metadata(b) ==
    sha256_hexdigest(json_dumps(Pop(Pop(b, "hash"), "metadata"), TRUE))

\* Block.compute_hash: the stored hash is popped before hashing
compute_hash3(b) == sha256_hexdigest(json_dumps(Pop(b, "hash"), TRUE))

\* Block.__init__: nonce is 0 and hash is computed before the attribute exists
Block3(index, timestamp, art_hash, owner_name, owner_pubkey, signature, metadata, previous_hash) ==
    LET d == [index |-> index, timestamp |-> timestamp, art_hash |-> art_hash,
              owner_name |-> owner_name, owner_pubkey |-> owner_pubkey,
              signature |-> signature, metadata |-> metadata,
              previous_hash |-> previous_hash, nonce |-> 0]
    IN  [index |-> index, timestamp |-> timestamp, art_hash |-> art_hash,
         owner_name |-> owner_name, owner_pubkey |-> owner_pubkey,
         signature |-> signature, metadata |-> metadata,
         previous_hash |-> previous_hash, nonce |-> 0,
         hash |-> compute_hash3(d)]

\* Blockchain.create_genesis_block, with now the reading of datetime.now()
create_genesis_block3(now) ==
    Block3(0, now, "0", "Genesis", None, None, GenesisMetadata, ZeroHash)

\* __init__ without the call of create_genesis_block
Blockchain3_no_genesis(now) == <<>>

\* Blockchain.__init__
Blockchain3(now) == <<create_genesis_block3(now)>>

\* add_block linking to self.chain[0] instead of self.chain[-1]
new_block3_links_first(c, now, art_hash, owner_name, owner_pubkey, signature, metadata) ==
    Block3(Len(c), now, art_hash, owner_name, owner_pubkey, signature,
           metadata, c[1].hash)

\* the Block that Blockchain.add_block builds
new_block3(c, now, art_hash, owner_name, owner_pubkey, signature, metadata) ==
    Block3(Len(c), now, art_hash, owner_name, owner_pubkey, signature,
           metadata, c[Len(c)].hash)

\* add_block with self.chain.insert(0, new_block)
chain_append3_at_front(c, new_block) == <<new_block>> \o c

\* Blockchain.add_block: self.chain.append(new_block)
chain_append3(c, new_block) == Append(c, new_block)

\* is_chain_valid without the comparison of previous_hash
RECURSIVE is_chain_valid3_from_no_link(_, _)
is_chain_valid3_from_no_link(c, i) ==
    IF i > Len(c) THEN TRUE
    ELSE IF c[i].hash # compute_hash3(c[i]) THEN FALSE
    ELSE is_chain_valid3_from_no_link(c, i + 1)

\* the loop without the comparison of the stored and the recomputed hash
RECURSIVE is_chain_valid3_from_no_hash(_, _)
is_chain_valid3_from_no_hash(c, i) ==
    IF i > Len(c) THEN TRUE
    ELSE IF c[i].previous_hash # c[i - 1].hash THEN FALSE
    ELSE is_chain_valid3_from_no_hash(c, i + 1)

\* Blockchain.is_chain_valid: the loop from position i (1-based) on
RECURSIVE is_chain_valid3_from(_, _)
is_chain_valid3_from(c, i) ==
    IF i > Len(c) THEN TRUE
    ELSE IF c[i].hash # compute_hash3(c[i]) THEN FALSE
    ELSE IF c[i].previous_hash # c[i - 1].hash THEN FALSE
    ELSE is_chain_valid3_from(c, i + 1)

\* the scan started one position late: range(2, len(self.chain))
is_chain_valid3_from_two(c) == is_chain_valid3_from(c, 3)

is_chain_valid3(c) == is_chain_valid3_from(c, 2)

\* compute_hash popping 'hash' from self.__dict__ itself, not from a copy
self_after_compute_hash3_no_copy(b) == Pop(b, "hash")

\* Block.compute_hash: the block's own attributes after the call, which
\* pops 'hash' from self.__dict__.copy()
self_after_compute_hash3(b) == b

\* the positions (1-based) whose compute_hash the loop of is_chain_valid calls
scanned3(c) == {i \in 2..Len(c) : is_chain_valid3_from(SubSeq(c, 1, i - 1), 2)}

\* the chain as is_chain_valid leaves it
chain_after_is_chain_valid3(c) ==
    [i \in 1..Len(c) |-> IF i \in scanned3(c) THEN self_after_compute_hash3(c[i]) ELSE c[i]]

\* Blockchain.to_dict followed by json.dump: one JSON object per block
save3(c) == [i \in 1..Len(c) |-> json_dumps(c[i], FALSE)]

Required3 ==
    {"index", "timestamp", "art_hash", "owner_name", "metadata",
     "previous_hash", "hash"}

\* the loop body with the two optional values passed in each other's place
load_block3_swapped(bd) ==
    LET b == Block3(bd.index, bd.timestamp, bd.art_hash, bd.owner_name,
                    Get(bd, "signature", None), Get(bd, "owner_pubkey", None),
                    bd.metadata, bd.previous_hash)
    IN  [b EXCEPT !.nonce = Get(bd, "nonce", 0), !.hash = bd.hash]

\* the loop body without block.hash = block_data['hash']
load_block3_rehash(bd) ==
    LET b == Block3(bd.index, bd.timestamp, bd.art_hash, bd.owner_name,
                    Get(bd, "owner_pubkey", None), Get(bd, "signature", None),
                    bd.metadata, bd.previous_hash)
    IN  [b EXCEPT !.nonce = Get(bd, "nonce", 0)]

\* the body of the loop of Blockchain.load for one block_data
load_block3(bd) ==
    LET b == Block3(bd.index, bd.timestamp, bd.art_hash, bd.owner_name,
                    Get(bd, "owner_pubkey", None), Get(bd, "signature", None),
                    bd.metadata, bd.previous_hash)
    IN  [b EXCEPT !.nonce = Get(bd, "nonce", 0), !.hash = bd.hash]

\* a block_data[k] of the loop raises KeyError
load_raises3(data) ==
    \E i \in DOMAIN data : ~(Required3 \subseteq JsonKeys(data[i]))

\* Blockchain.load when the file exists and every required key is there
load3(data) == [i \in 1..Len(data) |-> load_block3(json_loads(data[i]))]

\* a load that stops at a record it cannot read and keeps the ones before it
Blockchain_load3_keeps_prefix(st, now) ==
    IF ~st.exists THEN Return(Blockchain3(now))
    ELSE IF st.torn THEN Raise("JSONDecodeError")
    ELSE LET bad == {i \in DOMAIN st.data : ~(Required3 \subseteq JsonKeys(st.data[i]))}
             n == IF bad = {} THEN Len(st.data) ELSE (CHOOSE i \in bad : \A j \in bad : i <= j) - 1
         IN  Return(load3(SubSeq(st.data, 1, n)))

\* Blockchain.load: the chain it returns or the exception it raises
Blockchain_load3(st, now) ==
    IF ~st.exists THEN Return(Blockchain3(now))
    ELSE IF st.torn THEN Raise("JSONDecodeError")
    ELSE IF load_raises3(st.data) THEN Raise("KeyError")
    ELSE Return(load3(st.data))

(***************************************************************************)
(* src/app2.py: Block and Blockchain.                                      *)
(***************************************************************************)
\* Block.compute_hash: hashes the whole __dict__
compute_hash2(b) == sha256_hexdigest(json_dumps(b, TRUE))

\* Block.__init__
Block2(index, timestamp, art_hash, owner, metadata, previous_hash) ==
    LET d == [index |-> index, timestamp |-> timestamp, art_hash |-> art_hash,
              owner |-> owner, metadata |-> metadata,
              previous_hash |-> previous_hash, nonce |-> 0]
    IN  [index |-> index, timestamp |-> timestamp, art_hash |-> art_hash,
         owner |-> owner, metadata |-> metadata,
         previous_hash |-> previous_hash, nonce |-> 0,
         hash |-> compute_hash2(d)]

create_genesis_block2(now) ==
    Block2(0, now, "0", "Genesis", GenesisMetadata, ZeroHash)

Blockchain2(now) == <<create_genesis_block2(now)>>

new_block2(c, now, art_hash, owner, metadata) ==
    Block2(Len(c), now, art_hash, owner, metadata, c[Len(c)].hash)

chain_append2(c, new_block) == Append(c, new_block)

RECURSIVE is_chain_valid2_from(_, _)
is_chain_valid2_from(c, i) ==
    IF i > Len(c) THEN TRUE
    ELSE IF c[i].hash # compute_hash2(c[i]) THEN FALSE
    ELSE IF c[i].previous_hash # c[i - 1].hash THEN FALSE
    ELSE is_chain_valid2_from(c, i + 1)

is_chain_valid2(c) == is_chain_valid2_from(c, 2)

save2(c) == [i \in 1..Len(c) |-> json_dumps(c[i], FALSE)]

Required2 ==
    {"index", "timestamp", "art_hash", "owner", "metadata", "previous_hash",
     "hash"}

load_block2(bd) ==
    LET b == Block2(bd.index, bd.timestamp, bd.art_hash, bd.owner,
                    bd.metadata, bd.previous_hash)
    IN  [b EXCEPT !.nonce = Get(bd, "nonce", 0), !.hash = bd.hash]

load_raises2(data) ==
    \E i \in DOMAIN data : ~(Required2 \subseteq JsonKeys(data[i]))

load2(data) == [i \in 1..Len(data) |-> load_block2(json_loads(data[i]))]

\* a load that starts from a fresh chain whatever the file holds
Blockchain_load2_ignores_file(st, now) == Return(Blockchain2(now))

\* Blockchain.load: the chain it returns or the exception it raises
Blockchain_load2(st, now) ==
    IF ~st.exists THEN Return(Blockchain2(now))
    ELSE IF st.torn THEN Raise("JSONDecodeError")
    ELSE IF load_raises2(st.data) THEN Raise("KeyError")
    ELSE Return(load2(st.data))

\* the lookup stopping at the first match
matches_first_only(c, art_hash) ==
    LET all == SelectSeq(c, LAMBDA block : block.art_hash = art_hash)
    IN  IF all = <<>> THEN <<>> ELSE <<all[1]>>

\* verify_tab: matches = [block for block in chain if block.art_hash == art_hash]
matches(c, art_hash) == SelectSeq(c, LAMBDA block : block.art_hash = art_hash)

(***************************************************************************)
(* The state machine.                                                      *)
(***************************************************************************)
\* the file: missing, closed after a whole json.dump, or cut short
Absent == [exists |-> FALSE, data |-> <<>>, torn |-> FALSE]
File(data) == [exists |-> TRUE, data |-> data, torn |-> FALSE]
Partial(data) == [exists |-> TRUE, data |-> data, torn |-> TRUE]

Sessions == 1..MaxSessions
NoLock == 0
\* a session whose script has not run yet
NewSession == [pc |-> "start", chain |-> <<>>, seen |-> 0, minted |-> <<>>]

\* module level: blockchain = Blockchain.load(), the file not there yet
Init ==
    /\ app \in {"app2", "app3"}
    /\ \E now \in Timestamps :
          chain = IF app = "app3" THEN Blockchain3(now) ELSE Blockchain2(now)
    /\ storage = Absent
    /\ op = "create"
    /\ ret = "None"
    /\ tampers = 0
    /\ keys = {}
    /\ sigs = {}
    /\ sess = [s \in Sessions |-> NewSession]
    /\ lock = NoLock
    /\ lockorder = <<>>

\* app3: blockchain.add_block(art_hash, owner_name, owner_pubkey, signature, metadata)
AddBlock3 ==
    /\ app = "app3"
    /\ Len(chain) < MaxChain
    /\ \E now \in Timestamps, art_hash \in ArtHashes3, owner_name \in Owners,
          owner_pubkey \in PubKeys, signature \in Signatures,
          metadata \in Metadatas :
          IF Len(chain) = 0
          THEN /\ ret' = "IndexError"
               /\ chain' = chain
          ELSE /\ ret' = new_block3(chain, now, art_hash, owner_name,
                                    owner_pubkey, signature, metadata)
               /\ chain' = chain_append3(chain, ret')
    /\ op' = "add_block"
    /\ UNCHANGED <<app, storage, tampers, keys, sigs, sess, lock, lockorder>>

\* app3: blockchain.is_chain_valid()
IsChainValid3 ==
    /\ app = "app3"
    /\ op' = "is_chain_valid"
    /\ ret' = is_chain_valid3(chain)
    /\ chain' = chain_after_is_chain_valid3(chain)
    /\ UNCHANGED <<app, storage, tampers, keys, sigs, sess, lock, lockorder>>

\* app3: blockchain.save()
Save3 ==
    /\ app = "app3"
    /\ storage' = File(save3(chain))
    /\ op' = "save"
    /\ ret' = "None"
    /\ UNCHANGED <<app, chain, tampers, keys, sigs, sess, lock, lockorder>>

\* app3: blockchain = Blockchain.load()
Load3 ==
    /\ app = "app3"
    /\ op' = "load"
    /\ \E now \in Timestamps :
          LET r == Blockchain_load3(storage, now)
          IN  IF r.raised
              THEN ret' = r.exc /\ chain' = chain
              ELSE ret' = "None" /\ chain' = r.value
    /\ UNCHANGED <<app, storage, tampers, keys, sigs, sess, lock, lockorder>>

\* app2: blockchain.add_block(art_hash, owner, metadata)
AddBlock2 ==
    /\ app = "app2"
    /\ Len(chain) < MaxChain
    /\ \E now \in Timestamps, art_hash \in ArtHashes, owner \in Owners,
          metadata \in Metadatas :
          IF Len(chain) = 0
          THEN /\ ret' = "IndexError"
               /\ chain' = chain
          ELSE /\ ret' = new_block2(chain, now, art_hash, owner, metadata)
               /\ chain' = chain_append2(chain, ret')
    /\ op' = "add_block"
    /\ UNCHANGED <<app, storage, tampers, keys, sigs, sess, lock, lockorder>>

\* app2: blockchain.is_chain_valid()
IsChainValid2 ==
    /\ app = "app2"
    /\ op' = "is_chain_valid"
    /\ ret' = is_chain_valid2(chain)
    /\ UNCHANGED <<app, chain, storage, tampers, keys, sigs, sess, lock, lockorder>>

\* app2: blockchain.save()
Save2 ==
    /\ app = "app2"
    /\ storage' = File(save2(chain))
    /\ op' = "save"
    /\ ret' = "None"
    /\ UNCHANGED <<app, chain, tampers, keys, sigs, sess, lock, lockorder>>

\* app2: blockchain = Blockchain.load()
Load2 ==
    /\ app = "app2"
    /\ op' = "load"
    /\ \E now \in Timestamps :
          LET r == Blockchain_load2(storage, now)
          IN  IF r.raised
              THEN ret' = r.exc /\ chain' = chain
              ELSE ret' = "None" /\ chain' = r.value
    /\ UNCHANGED <<app, storage, tampers, keys, sigs, sess, lock, lockorder>>

\* app2, verify_tab: the lookup of an uploaded artwork's hash
Lookup2 ==
    /\ app = "app2"
    /\ \E art_hash \in ArtHashes \cup {"0"} :
          ret' = [art_hash |-> art_hash, matches |-> matches(chain, art_hash)]
    /\ op' = "lookup"
    /\ UNCHANGED <<app, chain, storage, tampers, keys, sigs, sess, lock, lockorder>>

Next ==
    \/ AddBlock3
    \/ IsChainValid3
    \/ Save3
    \/ Load3
    \/ AddBlock2
    \/ IsChainValid2
    \/ Save2
    \/ Load2
    \/ Lookup2

Spec == Init /\ [][Next]_vars

(***************************************************************************)
(* The environment of app3: code outside the Blockchain class that assigns *)
(* to a Block's attributes in place, and other writers of the file.        *)
(***************************************************************************)
Fields3 ==
    {"index", "timestamp", "art_hash", "owner_name", "owner_pubkey",
     "signature", "metadata", "previous_hash", "nonce", "hash"}

HashesOf(c) == {c[j].hash : j \in DOMAIN c} \cup {ZeroHash}

\* the values an attribute may be overwritten with
TamperValues(c, f) ==
    CASE f = "index" -> {Len(c)}
      [] f = "timestamp" -> {"1999-12-31 23:59:59.999999"}
      [] f = "art_hash" -> {"0ff1ce"}
      [] f = "owner_name" -> {"bob"}
      [] f = "owner_pubkey" -> PubKeys
      [] f = "signature" -> Signatures
      [] f = "metadata" -> {[title |-> "Sunset", category |-> "Art"]}
      [] f = "nonce" -> {1}
      [] OTHER -> {ZeroHash, c[Len(c)].hash}

\* chain[i].f = v, the stored hash left as it is (i is the list index, from 0)
Tamper ==
    /\ app = "app3"
    /\ tampers < MaxTamper
    /\ \E i \in DOMAIN chain, f \in Fields3 :
          \E v \in TamperValues(chain, f) :
             /\ v # chain[i][f]
             /\ chain' = [chain EXCEPT ![i][f] = v]
             /\ ret' = [index |-> i - 1, field |-> f]
    /\ op' = "tamper"
    /\ tampers' = tampers + 1
    /\ UNCHANGED <<app, storage, keys, sigs, sess, lock, lockorder>>

\* chain[i].previous_hash = v; chain[i].hash = chain[i].compute_hash()
Relink ==
    /\ app = "app3"
    /\ tampers < MaxTamper
    /\ \E i \in DOMAIN chain \ {1} :
          \E v \in (HashesOf(chain) \cup {chain[i].hash}) \ {chain[i - 1].hash} :
             LET b == [chain[i] EXCEPT !.previous_hash = v]
             IN  /\ chain' = [chain EXCEPT ![i] = [b EXCEPT !.hash = compute_hash3(b)]]
                 /\ ret' = [index |-> i - 1, field |-> "previous_hash"]
    /\ op' = "relink"
    /\ tampers' = tampers + 1
    /\ UNCHANGED <<app, storage, keys, sigs, sess, lock, lockorder>>

\* files another program leaves at blockchain.json
ExternalFiles == {<<>>}

ExternalWrite ==
    /\ app = "app3"
    /\ tampers < MaxTamper
    /\ \E data \in ExternalFiles : storage' = File(data)
    /\ op' = "external_write"
    /\ ret' = "None"
    /\ tampers' = tampers + 1
    /\ UNCHANGED <<app, chain, keys, sigs, sess, lock, lockorder>>

InitEnv == Init /\ app = "app3"

\* in-place mutation of the in-memory chain, no storage
NextTamper ==
    \/ (Len(chain) < MaxEnvChain /\ AddBlock3)
    \/ IsChainValid3
    \/ Tamper
    \/ Relink

SpecTamper == InitEnv /\ [][NextTamper]_vars

\* mutated chains and foreign files going through save and load
NextStore ==
    \/ (Len(chain) < MaxEnvChain /\ AddBlock3)
    \/ Save3
    \/ Load3
    \/ Tamper
    \/ ExternalWrite

SpecStore == InitEnv /\ [][NextStore]_vars

(***************************************************************************)
(* Blockchain.save step by step (the same code in both scripts):           *)
(*     with open(filename, "w") as f: json.dump(self.to_dict(), f, indent=4) *)
(* open truncates the file, json.dump writes the text piece by piece (here *)
(* record by record), leaving the with block closes the file.  The write   *)
(* can be cut short at any piece: an OSError of f.write, a TypeError of    *)
(* json.dump on a value it cannot encode, the process being stopped.       *)
(***************************************************************************)
Saving == op \in {"save_open", "save_write"}

\* what json.dump is writing
save_text == IF app = "app3" THEN save3(chain) ELSE save2(chain)

SaveOpen ==
    /\ ~Saving
    /\ storage' = Partial(<<>>)
    /\ op' = "save_open"
    /\ ret' = "None"
    /\ UNCHANGED <<app, chain, tampers, keys, sigs, sess, lock, lockorder>>

SaveWrite ==
    /\ Saving
    /\ Len(storage.data) < Len(save_text)
    /\ storage' = Partial(Append(storage.data, save_text[Len(storage.data) + 1]))
    /\ op' = "save_write"
    /\ ret' = "None"
    /\ UNCHANGED <<app, chain, tampers, keys, sigs, sess, lock, lockorder>>

SaveClose ==
    /\ Saving
    /\ Len(storage.data) = Len(save_text)
    /\ storage' = File(storage.data)
    /\ op' = "save"
    /\ ret' = "None"
    /\ UNCHANGED <<app, chain, tampers, keys, sigs, sess, lock, lockorder>>

\* the write is cut short: the exception leaves save, the file stays as it is
SaveFail ==
    /\ Saving
    /\ op' = "save_failed"
    /\ ret' = "OSError"
    /\ UNCHANGED <<app, chain, storage, tampers, keys, sigs, sess, lock, lockorder>>

\* a run of either script with saves that may fail
NextCrash ==
    \/ SaveOpen
    \/ SaveWrite
    \/ SaveClose
    \/ SaveFail
    \/ (~Saving /\ Len(chain) < MaxEnvChain /\ AddBlock3)
    \/ (~Saving /\ IsChainValid3)
    \/ (~Saving /\ Load3)
    \/ (~Saving /\ Len(chain) < MaxEnvChain /\ AddBlock2)
    \/ (~Saving /\ IsChainValid2)
    \/ (~Saving /\ Load2)
    \/ (~Saving /\ Lookup2)

SpecCrash == Init /\ [][NextCrash]_vars

(***************************************************************************)
(* Files of other origin at blockchain.json, read by app3's load: files    *)
(* of an older format whose records lack some of the keys owner_pubkey,    *)
(* signature and nonce, and files with a record that lacks a required key. *)
(***************************************************************************)
Optional3 == {"owner_pubkey", "signature", "nonce"}

\* a JSON object without the keys ks
WithoutKeys(obj, ks) == SelectSeq(obj, LAMBDA pair : pair[1] \notin ks)

\* the file of a chain with one signed record, as save writes it
SignedFile ==
    LET now == CHOOSE t \in Timestamps : TRUE
        c == Blockchain3(now)
    IN  save3(chain_append3(c, new_block3(c, now, "abc123", "alice", <<"vk1">>, <<"sig1">>, [title |-> "Sunset"])))

OlderFiles ==
    {[i \in DOMAIN SignedFile |-> WithoutKeys(SignedFile[i], ks)] : ks \in SUBSET Optional3}

MalformedFiles ==
    {[SignedFile EXCEPT ![i] = WithoutKeys(@, {k})] : i \in DOMAIN SignedFile, k \in Required3}

ForeignFiles == OlderFiles \cup MalformedFiles

ForeignWrite ==
    /\ app = "app3"
    /\ \E data \in ForeignFiles : storage' = File(data)
    /\ op' = "external_write"
    /\ ret' = "None"
    /\ UNCHANGED <<app, chain, tampers, keys, sigs, sess, lock, lockorder>>

\* app3 started on, and reloading, files it did not write
NextForeign ==
    \/ ForeignWrite
    \/ Load3
    \/ (Len(chain) < MaxEnvChain /\ AddBlock3)
    \/ IsChainValid3

SpecForeign == InitEnv /\ [][NextForeign]_vars

(***************************************************************************)
(* app3 taking over the storage file of app2: app2 runs and saves, then    *)
(* the app3 script is started in the same directory.                       *)
(***************************************************************************)
\* src/app3.py at module level: blockchain = Blockchain.load().  When load
\* raises, the script stops with `blockchain` unbound (here the empty chain).
StartApp3 ==
    /\ app = "app2"
    /\ app' = "app3"
    /\ \E now \in Timestamps :
          LET r == Blockchain_load3(storage, now)
          IN  IF r.raised
              THEN ret' = r.exc /\ chain' = <<>>
              ELSE ret' = "None" /\ chain' = r.value
    /\ op' = "start_app3"
    /\ UNCHANGED <<storage, tampers, keys, sigs, sess, lock, lockorder>>

InitCompat == Init /\ app = "app2"

NextCompat ==
    \/ AddBlock2
    \/ IsChainValid2
    \/ Save2
    \/ Load2
    \/ StartApp3

SpecCompat == InitCompat /\ [][NextCompat]_vars

(***************************************************************************)
(* Concurrent sessions of app2.  Each session is a run of the script in a  *)
(* process of its own, sharing only blockchain.json: it loads the chain at *)
(* module level, mint_tab calls add_block and then save.  A deployment may *)
(* wrap the three steps of a session in one exclusive lock.                *)
(***************************************************************************)
\* the saves finished so far
saves == Cardinality({t \in Sessions : sess[t].pc = "saved"})

\* src/app2.py 98-99: blockchain = Blockchain.load()
SessLoad(s) ==
    /\ sess[s].pc = "start"
    /\ \E now \in Timestamps :
          LET r == Blockchain_load2(storage, now)
          IN  sess' = [sess EXCEPT ![s] =
                         IF r.raised
                         THEN [@ EXCEPT !.pc = "crashed"]
                         ELSE [@ EXCEPT !.pc = "loaded", !.chain = r.value, !.seen = saves]]
    /\ UNCHANGED <<app, chain, storage, op, ret, tampers, keys, sigs, lock, lockorder>>

\* src/app2.py 119: new_block = blockchain.add_block(art_hash, owner, metadata)
SessAddBlock(s) ==
    /\ sess[s].pc = "loaded"
    /\ \E now \in Timestamps, art_hash \in ArtHashes, owner \in Owners, metadata \in Metadatas :
          sess' = [sess EXCEPT ![s] =
                     IF @.chain = <<>>
                     THEN [@ EXCEPT !.pc = "crashed"]
                     ELSE LET new_block == new_block2(@.chain, now, art_hash, owner, metadata)
                          IN  [@ EXCEPT !.pc = "added",
                                        !.chain = chain_append2(@, new_block),
                                        !.minted = <<new_block>>]]
    /\ UNCHANGED <<app, chain, storage, op, ret, tampers, keys, sigs, lock, lockorder>>

\* a save that adds the session's record to whatever the file holds
SessSave_appends(s) ==
    /\ sess[s].pc = "added"
    /\ storage' = IF storage.exists
                  THEN File(Append(storage.data, json_dumps(sess[s].minted[1], FALSE)))
                  ELSE File(save2(sess[s].chain))
    /\ sess' = [sess EXCEPT ![s].pc = "saved"]
    /\ UNCHANGED <<app, chain, op, ret, tampers, keys, sigs, lock, lockorder>>

\* src/app2.py 120-121: blockchain.save(); st.success(...)
SessSave(s) ==
    /\ sess[s].pc = "added"
    /\ storage' = File(save2(sess[s].chain))
    /\ sess' = [sess EXCEPT ![s].pc = "saved"]
    /\ UNCHANGED <<app, chain, op, ret, tampers, keys, sigs, lock, lockorder>>

\* the deployment's lock, taken before the script runs
Acquire(s) ==
    /\ lock = NoLock
    /\ sess[s].pc = "start"
    /\ lock' = s
    /\ lockorder' = Append(lockorder, s)
    /\ UNCHANGED <<app, chain, storage, op, ret, tampers, keys, sigs, sess>>

\* and given back once the script run has ended
Release(s) ==
    /\ lock = s
    /\ sess[s].pc \in {"saved", "crashed"}
    /\ lock' = NoLock
    /\ UNCHANGED <<app, chain, storage, op, ret, tampers, keys, sigs, sess, lockorder>>

InitSess == Init /\ app = "app2"

\* sessions as the code runs them: nothing orders their steps
NextUnlocked ==
    \E s \in Sessions :
       \/ SessLoad(s)
       \/ SessAddBlock(s)
       \/ SessSave(s)

SpecUnlocked == InitSess /\ [][NextUnlocked]_vars

\* every session runs load, add_block and save while holding the lock
NextLocked ==
    \E s \in Sessions :
       \/ Acquire(s)
       \/ (lock = s /\ SessLoad(s))
       \/ (lock = s /\ SessAddBlock(s))
       \/ (lock = s /\ SessSave(s))
       \/ Release(s)

SpecLocked == InitSess /\ [][NextLocked]_vars

(***************************************************************************)
(* src/app3.py: generate_wallet, sign_art, verify_signature.  The ecdsa    *)
(* and base64 calls they make are modelled by their contract: a call       *)
(* returns [raised |-> FALSE, value |-> v] or raises.                      *)
(***************************************************************************)

SigningKeys == {"sk1", "sk2"}
Digests == {"abc123", "def456"}
Entropy == {"k1", "k2"}

\* sk.verifying_key
verifying_key(sk) == <<"vk", sk>>
\* str.encode()
encode(str) == <<"utf8", str>>
\* sk.sign(data), k the random nonce of the signature
sk_sign(sk, data, k) == <<"ecdsa", sk, data, k>>
\* base64.b64encode(bytes).decode()
b64encode(bytes) == <<"b64", bytes>>

\* strings that are no output of sign_art
NotASignature == <<"text", <<"not-a-signature">>>>
NotAnEcdsaSignature == b64encode(<<"garbage">>)

\* base64.b64decode(s): binascii.Error on text that is not base64,
\* TypeError on None
b64decode(s) ==
    IF s = None THEN Raise("TypeError")
    ELSE IF s[1] = "b64" THEN Return(s[2])
    ELSE Raise("binascii.Error")

\* vk.verify(signature, data): True, or BadSignatureError
vk_verify(vk, signature, data) ==
    IF /\ Len(signature) = 4
       /\ verifying_key(signature[2]) = vk
       /\ signature[3] = data
    THEN Return(TRUE)
    ELSE Raise("BadSignatureError")

\* generate_wallet, sk the key SigningKey.generate draws
generate_wallet(sk) == <<sk, verifying_key(sk)>>

sign_art(sk, art_hash, k) == b64encode(sk_sign(sk, encode(art_hash), k))

\* the body of the try of verify_signature
verify_signature_try(vk, art_hash, signature) ==
    IF vk = None THEN Raise("AttributeError")
    ELSE LET decoded == b64decode(signature)
         IN  IF decoded.raised THEN decoded
             ELSE vk_verify(vk, decoded.value, encode(art_hash))

\* verify_signature without its except clause
verify_signature_no_except(vk, art_hash, signature) ==
    verify_signature_try(vk, art_hash, signature)

\* verify_signature: whatever the try raises becomes False
verify_signature(vk, art_hash, signature) ==
    LET out == verify_signature_try(vk, art_hash, signature)
    IN  IF out.raised THEN Return(FALSE) ELSE out

GenerateWallet ==
    /\ \E sk \in SigningKeys :
          /\ keys' = keys \cup {sk}
          /\ ret' = generate_wallet(sk)
    /\ op' = "generate_wallet"
    /\ UNCHANGED <<app, chain, storage, tampers, sigs, sess, lock, lockorder>>

SignArt ==
    /\ \E sk \in keys, art_hash \in Digests, k \in Entropy :
          LET s == [sk |-> sk, art_hash |-> art_hash,
                    signature |-> sign_art(sk, art_hash, k)]
          IN  /\ s \in sigs \/ Cardinality(sigs) < MaxSigs
              /\ sigs' = sigs \cup {s}
              /\ ret' = s.signature
    /\ op' = "sign_art"
    /\ UNCHANGED <<app, chain, storage, tampers, keys, sess, lock, lockorder>>

VerifySignature ==
    /\ \E vk \in {verifying_key(sk) : sk \in keys} \cup {None},
          art_hash \in Digests,
          signature \in {s.signature : s \in sigs}
                          \cup {None, NotASignature, NotAnEcdsaSignature} :
          ret' = [vk |-> vk, art_hash |-> art_hash, signature |-> signature,
                  out |-> verify_signature(vk, art_hash, signature)]
    /\ op' = "verify_signature"
    /\ UNCHANGED <<app, chain, storage, tampers, keys, sigs, sess, lock, lockorder>>

NextSig ==
    \/ GenerateWallet
    \/ SignArt
    \/ VerifySignature

SpecSig == InitEnv /\ [][NextSig]_vars

(***************************************************************************)
(* The claims.                                                             *)
(***************************************************************************)
\* C1: in app3, after create and any add_block, save and load, every record
\* after the first carries its predecessor's hash and the SHA-256 of the
\* canonical encoding of its other fields, and is_chain_valid() is true.
C1_ChainInvariant ==
    app = "app3" =>
        /\ \A i \in 2..Len(chain) :
              /\ chain[i].previous_hash = chain[i - 1].hash
              /\ chain[i].hash =
                    sha256_hexdigest(json_dumps(Pop(chain[i], "hash"), TRUE))
        /\ is_chain_valid3(chain)

C1_Witness ==
    /\ app = "app3"
    /\ op = "load"
    /\ storage.exists
    /\ Len(chain) >= 3

\* C2: in app2, after add_block calls on an unmodified chain, compute_hash()
\* of every appended block gives its stored hash and is_chain_valid() is true.
C2_App2HashReproduces ==
    (app = "app2" /\ op = "add_block") =>
        /\ \A i \in 2..Len(chain) : compute_hash2(chain[i]) = chain[i].hash
        /\ is_chain_valid2(chain)

\* C3: overwriting one attribute other than hash of a record i >= 1 of a
\* valid chain, the stored hash left alone, makes is_chain_valid() false.
C3_TamperDetected ==
    [][(/\ op' = "tamper"
        /\ is_chain_valid3(chain)
        /\ ret'.index >= 1
        /\ ret'.field # "hash") => ~is_chain_valid3(chain')]_vars

C3_Witness ==
    /\ op = "tamper"
    /\ tampers = 1
    /\ ret.index >= 1
    /\ ret.field = "owner_name"
    /\ chain[ret.index + 1].owner_name = "bob"
    /\ ~is_chain_valid3(chain)

\* C4: a record i >= 1 given a previous_hash other than its predecessor's
\* hash, and then its own hash recomputed, makes is_chain_valid() false.
C4_LinkageBreakDetected ==
    op = "relink" => ~is_chain_valid3(chain)

C4_Witness ==
    /\ op = "relink"
    /\ chain[ret.index + 1].hash = compute_hash3(chain[ret.index + 1])
    /\ chain[ret.index + 1].previous_hash # chain[ret.index].hash
    /\ ~is_chain_valid3(chain)

\* C5: add_block on a non-empty chain returns the new last record, whose
\* previous_hash is the hash of the record that was last and whose index is
\* the former length; the chain grows by exactly one record.
C5_AppendLinkage ==
    [][(op' = "add_block" /\ Len(chain) > 0) =>
          /\ Len(chain') = Len(chain) + 1
          /\ chain'[Len(chain')] = ret'
          /\ ret'.previous_hash = chain[Len(chain)].hash
          /\ ret'.index = Len(chain)]_vars

C5_Witness ==
    /\ op = "add_block"
    /\ Len(chain) >= 3
    /\ ret = chain[Len(chain)]
    /\ ret.index = Len(chain) - 1
    /\ ret.previous_hash = chain[Len(chain) - 1].hash

\* C6: the chain of Blockchain(), and of load() with no storage file, is the
\* genesis record alone (index 0, art_hash "0", owner "Genesis",
\* previous_hash "0", no key, no signature), it is valid, and nothing raised.
C6_Genesis ==
    (op = "create" \/ (op = "load" /\ ~storage.exists)) =>
        /\ ret = "None"
        /\ Len(chain) = 1
        /\ chain[1].index = 0
        /\ chain[1].art_hash = "0"
        /\ chain[1].previous_hash = ZeroHash
        /\ IF app = "app3"
           THEN /\ chain[1].owner_name = "Genesis"
                /\ chain[1].owner_pubkey = None
                /\ chain[1].signature = None
                /\ is_chain_valid3(chain)
           ELSE /\ chain[1].owner = "Genesis"
                /\ is_chain_valid2(chain)

C6_Witness ==
    /\ app = "app3"
    /\ op = "load"
    /\ ~storage.exists
    /\ Len(chain) = 1
    /\ chain[1].index = 0

\* C7: what load() builds from the file save() has just written is the saved
\* chain, record for record and attribute for attribute, absent optional
\* attributes still absent, so is_chain_valid() answers the same.
C7_SaveLoadRoundTrip ==
    op = "save" =>
        /\ storage.exists
        /\ ~load_raises3(storage.data)
        /\ load3(storage.data) = chain
        /\ is_chain_valid3(load3(storage.data)) = is_chain_valid3(chain)

C7_Witness ==
    /\ op = "save"
    /\ tampers > 0
    /\ Len(chain) >= 2
    /\ ~is_chain_valid3(chain)
    /\ \E i, j \in DOMAIN chain :
          chain[i].signature # None /\ chain[j].signature = None
    /\ load3(storage.data) = chain

\* C8: add_block, is_chain_valid, the lookup and save leave every record that
\* was in the chain where it was and as it was: the chain before the call is
\* a prefix of the chain after it.
C8_AppendOnly ==
    [][(op' \in {"add_block", "is_chain_valid", "lookup", "save"}) =>
          /\ Len(chain') >= Len(chain)
          /\ SubSeq(chain', 1, Len(chain)) = chain]_vars

C8_Witness ==
    /\ op = "add_block"
    /\ storage.exists
    /\ Len(storage.data) < Len(chain)
    /\ Len(chain) >= 3

\* C9: the lookup returns the records whose art_hash is the hash looked up,
\* all of them and in chain order; right after add_block(h, ...) the lookup
\* of h holds the new record; with no match the result is the empty list.
C9_Lookup ==
    /\ op = "lookup" =>
          LET idx == {i \in DOMAIN chain : chain[i].art_hash = ret.art_hash}
              pos(j) == CHOOSE i \in idx :
                           Cardinality({k \in idx : k <= i}) = j
          IN  /\ Len(ret.matches) = Cardinality(idx)
              /\ \A j \in 1..Len(ret.matches) : ret.matches[j] = chain[pos(j)]
              /\ idx = {} => ret.matches = <<>>
    /\ (app = "app2" /\ op = "add_block") =>
          \E j \in DOMAIN matches(chain, ret.art_hash) :
             matches(chain, ret.art_hash)[j] = ret

C9_Witness ==
    /\ op = "lookup"
    /\ Len(ret.matches) = 2
    /\ Len(chain) = 4
    /\ ret.matches[1].index < ret.matches[2].index

\* C10: verify_signature never raises and answers true exactly for a
\* signature sign_art made with the key of vk over the same digest: false
\* for another key's signature, for another digest, for a string that is no
\* signature and for a missing key.
C10_VerifySignature ==
    op = "verify_signature" =>
        /\ ret.out.raised = FALSE
        /\ ret.out.value =
              (\E s \in sigs : /\ s.signature = ret.signature
                               /\ verifying_key(s.sk) = ret.vk
                               /\ s.art_hash = ret.art_hash)

C10_Witness ==
    /\ op = "verify_signature"
    /\ ret.vk # None
    /\ ret.signature = NotASignature
    /\ sigs # {}
    /\ ret.out = Return(FALSE)

\* C11: in every record of a chain built by Blockchain() and add_block calls,
\* whatever optional arguments the caller passes, owner_pubkey is present
\* exactly when signature is present.
C11_PubkeyIffSignature ==
    app = "app3" =>
        \A i \in DOMAIN chain :
           (chain[i].owner_pubkey # None) <=> (chain[i].signature # None)

\* C12: when a record of the storage file lacks one of the required keys
\* (index, timestamp, art_hash, owner_name, metadata, previous_hash, hash),
\* load raises and returns no chain: the caller's chain is not replaced, in
\* particular not by the records that precede the malformed one.
C12_MalformedFails ==
    [][(/\ op' = "load"
        /\ storage.exists
        /\ ~storage.torn
        /\ \E i \in DOMAIN storage.data, k \in Required3 :
              k \notin JsonKeys(storage.data[i]))
       => (ret' = "KeyError" /\ chain' = chain)]_vars

\* a load of a file whose second record is malformed has raised
C12_Witness ==
    /\ op = "load"
    /\ ret = "KeyError"
    /\ storage \in {File(data) : data \in MalformedFiles}
    /\ Required3 \subseteq JsonKeys(storage.data[1])
    /\ "owner_name" \notin JsonKeys(storage.data[2])

\* C13: a storage file whose records have every required key loads without
\* error even where a record lacks the keys owner_pubkey, signature or nonce:
\* a missing owner_pubkey or signature loads as None, a missing nonce as 0,
\* and every other field, the stored hash included, is the persisted one.
C13_LoadTolerance ==
    (/\ op = "load"
     /\ storage.exists
     /\ ~storage.torn
     /\ \A i \in DOMAIN storage.data : Required3 \subseteq JsonKeys(storage.data[i]))
    => /\ ret = "None"
       /\ Len(chain) = Len(storage.data)
       /\ \A i \in DOMAIN storage.data :
             LET present == JsonKeys(storage.data[i])
                 bd == json_loads(storage.data[i])
             IN  /\ chain[i].owner_pubkey =
                       IF "owner_pubkey" \in present THEN bd.owner_pubkey ELSE None
                 /\ chain[i].signature =
                       IF "signature" \in present THEN bd.signature ELSE None
                 /\ chain[i].nonce = IF "nonce" \in present THEN bd.nonce ELSE 0
                 /\ \A k \in Required3 : chain[i][k] = bd[k]

\* a file of the oldest format has been loaded: the second record had none
\* of the three keys
C13_Witness ==
    /\ op = "load"
    /\ ret = "None"
    /\ storage.exists
    /\ Len(storage.data) = 2
    /\ JsonKeys(storage.data[2]) = Required3
    /\ chain[2].owner_pubkey = None
    /\ chain[2].signature = None
    /\ chain[2].nonce = 0
    /\ chain[2].hash = json_loads(storage.data[2]).hash

\* C16: app3's is_chain_valid() returns True exactly when every record at a
\* position i with 1 <= i < len(chain) has a stored hash equal to its
\* recomputed hash and a previous_hash equal to the stored hash of the record
\* at i - 1; it returns False when some position violates one of the two (the
\* scan stops at the lowest one), and True for a chain of the genesis alone.
C16_IsChainValid ==
    (app = "app3" /\ op = "is_chain_valid") =>
        LET bad == {i \in 1..(Len(chain) - 1) :
                       \/ chain[i + 1].hash # compute_hash3(chain[i + 1])
                       \/ chain[i + 1].previous_hash # chain[i].hash}
        IN  /\ ret = (bad = {})
            /\ Len(chain) = 1 => ret = TRUE

\* the scan has answered False on a chain whose one violation is a stored
\* hash at position 1 that its record no longer reproduces
C16_Witness ==
    /\ app = "app3"
    /\ op = "is_chain_valid"
    /\ ret = FALSE
    /\ Len(chain) = 2
    /\ chain[2].previous_hash = chain[1].hash
    /\ chain[2].hash # compute_hash3(chain[2])

C15_AtomicSave ==
    /\ storage.exists => ~storage.torn
    /\ op = "load" => ret # "JSONDecodeError"

\* C18: is_chain_valid, the lookup by content hash and save, whether save
\* succeeds or fails with a storage error, leave every record and field of
\* the in-memory chain as it was; hence after a failed save add_block and
\* is_chain_valid answer as they would have before it.
C18_ReadOnly ==
    [][op' \in {"is_chain_valid", "lookup", "save_open", "save_write", "save", "save_failed"}
       => chain' = chain]_vars

\* after a save that failed and left a torn file behind, add_block has
\* appended to the chain that was being saved
C18_Witness ==
    /\ op = "add_block"
    /\ storage.torn
    /\ Len(chain) = 2
    /\ Len(storage.data) < 2
    /\ ret = chain[2]

\* C20: app3's load accepts every storage file app2's save has written: the
\* chain it returns has the same number of records in the same order, with
\* owner_pubkey and signature absent and with nonce, hash and the remaining
\* fields as persisted (app2's owner being the record's owner name).
C20_CrossVersion ==
    (op = "start_app3" /\ storage.exists) =>
        /\ ret = "None"
        /\ Len(chain) = Len(storage.data)
        /\ \A i \in DOMAIN storage.data :
              LET bd == json_loads(storage.data[i])
              IN  /\ chain[i].owner_pubkey = None
                  /\ chain[i].signature = None
                  /\ chain[i].owner_name = bd.owner
                  /\ \A k \in Required2 \ {"owner"} : chain[i][k] = bd[k]
                  /\ chain[i].nonce = bd.nonce

\* C14: when every session runs its whole load, add_block, save sequence
\* while holding one exclusive lock on the storage, then whenever the lock is
\* free, after n sessions, the persisted chain is the genesis record followed
\* by exactly one record per successful mint, in the order the sessions took
\* the lock, with indices 1..n, each previous_hash being the predecessor's
\* hash.
C14_SerializedSessions ==
    lock = NoLock =>
        LET n == Len(lockorder)
        IN  IF n = 0
            THEN ~storage.exists
            ELSE /\ storage.exists
                 /\ ~storage.torn
                 /\ ~load_raises2(storage.data)
                 /\ Len(storage.data) = 1 + n
                 /\ LET c == load2(storage.data)
                    IN  /\ c[1].index = 0
                        /\ c[1].owner = "Genesis"
                        /\ c[1].previous_hash = ZeroHash
                        /\ \A k \in 1..n :
                              /\ sess[lockorder[k]].pc = "saved"
                              /\ c[k + 1] = sess[lockorder[k]].minted[1]
                              /\ c[k + 1].index = k
                              /\ c[k + 1].previous_hash = c[k].hash

\* two sessions have run under the lock, the higher-numbered one first, and
\* the file holds the genesis record and their two records
C14_Witness ==
    /\ lock = NoLock
    /\ Len(lockorder) = 2
    /\ lockorder[1] > lockorder[2]
    /\ Len(storage.data) = 3
    /\ sess[lockorder[2]].minted[1].index = 2

\* C19: with no lock, whenever two sessions have both loaded before either
\* saved and both have saved (both mints reported successful), the two minted
\* records carry the same block index, the file is the whole chain of one
\* session alone, the later save having overwritten the earlier one, and its
\* length is less than 1 + the number of successful mints.
C19_LostUpdate ==
    \A s, t \in Sessions :
       (/\ s # t
        /\ sess[s].pc = "saved"
        /\ sess[t].pc = "saved"
        /\ sess[s].seen = sess[t].seen)
       => /\ sess[s].minted[1].index = sess[t].minted[1].index
          /\ storage.exists
          /\ \E u \in Sessions : sess[u].pc = "saved" /\ storage.data = save2(sess[u].chain)
          /\ Len(storage.data) < 1 + saves

\* two sessions loaded before any save and minted different artworks; both
\* have saved, and the file holds the genesis record and one of the two
C19_Witness ==
    \E s, t \in Sessions :
       /\ sess[s].pc = "saved"
       /\ sess[t].pc = "saved"
       /\ sess[s].seen = 0
       /\ sess[t].seen = 0
       /\ sess[s].minted[1].art_hash # sess[t].minted[1].art_hash
       /\ saves = 2
       /\ Len(storage.data) = 2
       /\ storage.data[2] = json_dumps(sess[t].minted[1], FALSE)

====
